---- MODULE Spec2Model ----
(***************************************************************************)
(* Model of openedx-optimize-course-images: the per-course image rewrite   *)
(* pipeline (traverse_image_files and process_tar_file), the batch driver  *)
(* (main) and the pixel-size rule of optimize_image.                       *)
(*                                                                         *)
(* Every string of the program (file names, file contents, JSON keys and   *)
(* values) is a sequence of one-character strings, so that substring       *)
(* search, case folding, str.replace, re.sub and os.path.splitext are      *)
(* computed character by character as Python computes them.                *)
(***************************************************************************)
EXTENDS Integers, Sequences, FiniteSets, TLC

(***************************************************************************)
(* String primitives.                                                      *)
(***************************************************************************)

\* str.lower() on one character (ASCII letters).
LowerChar(c) ==
    CASE c = "A" -> "a" [] c = "B" -> "b" [] c = "C" -> "c" [] c = "D" -> "d"
      [] c = "E" -> "e" [] c = "F" -> "f" [] c = "G" -> "g" [] c = "H" -> "h"
      [] c = "I" -> "i" [] c = "J" -> "j" [] c = "K" -> "k" [] c = "L" -> "l"
      [] c = "M" -> "m" [] c = "N" -> "n" [] c = "O" -> "o" [] c = "P" -> "p"
      [] c = "Q" -> "q" [] c = "R" -> "r" [] c = "S" -> "s" [] c = "T" -> "t"
      [] c = "U" -> "u" [] c = "V" -> "v" [] c = "W" -> "w" [] c = "X" -> "x"
      [] c = "Y" -> "y" [] c = "Z" -> "z" [] OTHER -> c

\* str.lower()
Lower(s) == [i \in 1..Len(s) |-> LowerChar(s[i])]

\* str.startswith(p)
StartsWith(s, p) == Len(p) <= Len(s) /\ SubSeq(s, 1, Len(p)) = p

\* str.endswith(p)
EndsWith(s, p) ==
    Len(p) <= Len(s) /\ SubSeq(s, Len(s) - Len(p) + 1, Len(s)) = p

\* `p in s` (case-sensitive substring test)
Contains(s, p) ==
    \E i \in 1..(Len(s) - Len(p) + 1) : SubSeq(s, i, i + Len(p) - 1) = p

\* str.replace(old, new) for a non-empty old; re.sub(pattern, new, s) for a
\* pattern that is an escaped literal: leftmost, non-overlapping, one pass.
RECURSIVE Replace(_, _, _)
Replace(s, old, new) ==
    IF Len(s) < Len(old) THEN s
    ELSE IF StartsWith(s, old)
         THEN new \o Replace(SubSeq(s, Len(old) + 1, Len(s)), old, new)
         ELSE <<s[1]>> \o Replace(Tail(s), old, new)

\* os.path.splitext(p)[0] for a name without directory separators: the
\* extension starts at the last dot, unless only dots precede that dot.
SplitExtRoot(s) ==
    LET dots == {i \in 1..Len(s) : s[i] = "."}
        last == CHOOSE i \in dots : \A j \in dots : j <= i
    IN  IF dots = {} THEN s
        ELSE IF \A j \in 1..last : s[j] = "." THEN s
        ELSE SubSeq(s, 1, last - 1)

(***************************************************************************)
(* Literals of the program.                                                *)
(***************************************************************************)
PNG  == <<".", "p", "n", "g">>
JPG  == <<".", "j", "p", "g">>
JPEG == <<".", "j", "p", "e", "g">>
supported_extensions == {PNG, JPEG, JPG}
MimePng  == <<"i", "m", "a", "g", "e", "/", "p", "n", "g">>
MimeJpeg == <<"i", "m", "a", "g", "e", "/", "j", "p", "e", "g">>
ThumbPngJpg == <<"-", "p", "n", "g", ".", "j", "p", "g">>


(***************************************************************************)
(* The course tree of one job.                                             *)
(*   static  : names of the files under course/static                      *)
(*   broken  : files of static that the image library cannot open          *)
(*   texts   : text of every scanned content file; "policy.json" is the    *)
(*             policy document, whose text is its course_image value       *)
(*   assets  : policies/assets.json, the entries in document order         *)
(*   input   : the course tree as it was extracted                         *)
(*   listed  : the files os.walk reported for static/ in this run          *)
(*   faulted : the images for which a step failed, with the step and the   *)
(*             files the walk had still to visit at that moment            *)
(*   errorLog: the error lines written, each with the image it is about    *)
(*             and the logger that wrote it                                *)
(***************************************************************************)
VARIABLES
    \* one course tree in process_tar_file
    static, broken, texts, assets, todo, pc, visits, run, first,
    input, listed, faulted, errorLog,
    \* one image in optimize_image
    origW, origH, width, height, ipc,
    \* one run of main
    sourceDir, kind, tar_files, chunkAt, mainPc, jobPc, raised, poolError,
    touched, appLog

courseVars == <<static, broken, texts, assets, todo, pc, visits, run, first,
                input, listed, faulted, errorLog>>
imageVars == <<origW, origH, width, height, ipc>>
mainVars == <<sourceDir, kind, tar_files, chunkAt, mainPc, jobPc, raised,
              poolError, touched, appLog>>

\* Largest number of files under static/ in an input course.
MaxImages == 2

\* Files under the course root with a text extension (file_handlers.py:64),
\* other than assets.json.
Files == {"about.html", "policy.json"}

Name(base, ext) == base \o ext

\* On-disk files a course may hold, each with its registry key (none for a
\* hidden file, which the export tooling does not register).
ImagePool ==
    { [disk |-> Name(<<"a">>, PNG),            key |-> Name(<<"a">>, PNG)],
      [disk |-> Name(<<"a">>, JPG),            key |-> Name(<<"a">>, JPG)],
      [disk |-> Name(<<"a">>, JPEG),           key |-> Name(<<"a">>, JPEG)],
      [disk |-> Name(<<"x", "a">>, PNG),       key |-> Name(<<"x", "a">>, PNG)],
      [disk |-> Name(<<"b", "_", "2">>, PNG),  key |-> Name(<<"b", "@", "2">>, PNG)],
      [disk |-> Name(<<"c", "_", "2">>, JPG),  key |-> Name(<<"c", "_", "2">>, JPG)],
      [disk |-> Name(<<".", "h">>, PNG),       key |-> <<>>] }

\* Texts a content file may hold: one image reference, or none.
AboutTexts ==
    { <<>>,
      Name(<<"a">>, PNG), <<"A", ".", "p", "n", "g">>, Name(<<"x", "a">>, PNG),
      Name(<<"a">>, JPEG), Name(<<"b", "@", "2">>, PNG),
      Name(<<"c", "_", "2">>, JPG) }

\* Values the policy document's course_image may hold.
PolicyTexts == { <<>>, Name(<<"a">>, PNG), Name(<<"b", "_", "2">>, PNG) }

\* The thumbnail name the platform derives for an asset: "a.png" has the
\* thumbnail "a-png.jpg".
ThumbOf(key) ==
    LET root == SplitExtRoot(key)
    IN  root \o <<"-">> \o SubSeq(key, Len(root) + 2, Len(key)) \o JPG

MimeOf(key) == IF EndsWith(Lower(key), PNG) THEN MimePng ELSE MimeJpeg

EntryOf(key) == [key |-> key, contentType |-> MimeOf(key), thumb |-> ThumbOf(key)]

\* A total order on the pool, used only to lay the registry out as a document.
RECURSIVE SetToSeq(_)
SetToSeq(S) ==
    IF S = {} THEN <<>>
    ELSE LET x == CHOOSE y \in S : TRUE IN <<x>> \o SetToSeq(S \ {x})

RegistryOf(imgs) ==
    LET keyed == SetToSeq({i \in imgs : i.key # <<>>})
    IN  [n \in 1..Len(keyed) |-> EntryOf(keyed[n].key)]

NoOutput == [static |-> {}, texts |-> <<>>, assets |-> <<>>]

CourseInit ==
    \E imgs \in SUBSET ImagePool :
      /\ Cardinality(imgs) \in 1..MaxImages
      /\ \A i, j \in imgs : i.disk = j.disk => i = j
      /\ static = {i.disk : i \in imgs}
      /\ broken \in SUBSET static
      /\ assets = RegistryOf(imgs)
      /\ \E a \in AboutTexts, p \in PolicyTexts :
            texts = [f \in Files |-> IF f = "policy.json" THEN p ELSE a]
      /\ todo = {}
      /\ pc = "Unpacked"
      /\ visits = {}
      /\ run = 1
      /\ first = NoOutput
      /\ input = [static |-> static, broken |-> broken,
                  texts |-> texts, assets |-> assets]
      /\ listed = {}
      /\ faulted = {}
      /\ errorLog = {}


(***************************************************************************)
(* utils/json_handlers.py                                                  *)
(***************************************************************************)

\* find_parent_key(assets.json, on-disk name): the registry key whose
\* '@' -> '_' transform is the on-disk name (the first such key in document
\* order), and the on-disk name itself when the registry has none.
find_parent_key(registry, file) ==
    LET hits == {n \in 1..Len(registry) :
                    Replace(registry[n].key, <<"@">>, <<"_">>) = file}
    IN  IF hits = {} THEN file
        ELSE registry[CHOOSE n \in hits : \A m \in hits : n <= m].key

\* delete_key_from_json: drops the top-level entry of that key, if any.
delete_key_from_json(registry, key_to_delete) ==
    SelectSeq(registry, LAMBDA e : e.key # key_to_delete)

\* find_and_replace_in_json on the registry: re.sub on every string value.
find_and_replace_in_json(registry, search_pattern, replace_with) ==
    [n \in 1..Len(registry) |->
        [key         |-> registry[n].key,
         contentType |-> Replace(registry[n].contentType, search_pattern, replace_with),
         thumb       |-> Replace(registry[n].thumb, search_pattern, replace_with)]]

\* One insertion into a Python dict: an existing key keeps its place and takes
\* the new value.
DictPut(registry, entry) ==
    IF \E n \in 1..Len(registry) : registry[n].key = entry.key
    THEN [n \in 1..Len(registry) |->
            IF registry[n].key = entry.key THEN entry ELSE registry[n]]
    ELSE Append(registry, entry)

\* replace_json_keys: the dict comprehension over the old items, each key
\* renamed by str.replace. The field names of an entry hold no ".png".
RECURSIVE RenameInto(_, _, _, _)
RenameInto(done, rest, find_str, replace_str) ==
    IF rest = <<>> THEN done
    ELSE RenameInto(
            DictPut(done, [rest[1] EXCEPT !.key = Replace(@, find_str, replace_str)]),
            Tail(rest), find_str, replace_str)

replace_json_keys(registry, find_str, replace_str) ==
    RenameInto(<<>>, registry, find_str, replace_str)

(***************************************************************************)
(* utils/file_handlers.py                                                  *)
(***************************************************************************)

\* search_image_in_files: the scanned files whose lowered text contains the
\* lowered image name. assets.json is skipped: it is not among Files.
search_image_in_files(image_name, contents) ==
    {f \in Files : Contains(Lower(contents[f]), Lower(image_name))}

(***************************************************************************)
(* utils/img_handlers.py                                                   *)
(***************************************************************************)

IsJpegName(path) == EndsWith(Lower(path), JPG) \/ EndsWith(Lower(path), JPEG)

\* optimize_image, as seen in the directory: a file the library cannot open
\* raises inside the try and nothing is written; otherwise "<root>.jpg" is
\* written and an original that is not a JPEG is removed.
optimize_image(dir, bad, image_path) ==
    LET output_path == SplitExtRoot(image_path) \o JPG
    IN  IF image_path \in bad
        THEN [static |-> dir, broken |-> bad]
        ELSE [static |-> (dir \cup {output_path})
                            \ (IF IsJpegName(image_path) THEN {} ELSE {image_path}),
              broken |-> bad \ {output_path}]


(***************************************************************************)
(* optimize-course-images.py: traverse_image_files, one loop iteration per *)
(* action, in whatever order the directory walk reports the files.         *)
(***************************************************************************)

IsHidden(file) == StartsWith(Lower(file), <<".">>)

IsSupported(file) == \E ext \in supported_extensions : EndsWith(Lower(file), ext)

\* The rebinding of line 79 left out: the on-disk name is used as it is.
LogicalName_OnDisk(registry, file) == file

\* Lines 79-82: `file` is rebound to the registry's name for the image.
LogicalName(registry, file) == find_parent_key(registry, file)

\* Lines 91-97: every usage file is read, rewritten by str.replace, written.
RewriteUsages(contents, usages, file, new_file_name) ==
    [f \in Files |-> IF f \in usages
                     THEN Replace(contents[f], file, new_file_name)
                     ELSE contents[f]]

\* Line 62: os.walk lists the directory once, before the first file is visited.
ListStatic ==
    /\ pc = "Unpacked"
    /\ todo' = static
    /\ listed' = static
    /\ pc' = "Walking"
    /\ UNCHANGED <<imageVars, mainVars, static, broken, texts, assets, visits, run, first,
                   input, faulted, errorLog>>

\* Lines 65-68: hidden files and files of another extension are passed over.
SkipFile(f) ==
    /\ pc = "Walking"
    /\ f \in todo
    /\ IsHidden(f) \/ ~IsSupported(f)
    /\ todo' = todo \ {f}
    /\ UNCHANGED <<imageVars, mainVars, static, broken, texts, assets, pc, visits, run, first,
                   input, listed, faulted, errorLog>>

\* Lines 84-98: the image is referenced.
VisitUsed(f) ==
    /\ pc = "Walking"
    /\ f \in todo
    /\ ~IsHidden(f) /\ IsSupported(f)
    /\ LET file  == LogicalName(assets, f)
           found == search_image_in_files(file, texts)
           opt   == optimize_image(static, broken, f)
           isPng == EndsWith(Lower(file), PNG)
           new_file_name == SplitExtRoot(file) \o JPG
       IN  /\ found # {}
           /\ static' = opt.static
           /\ broken' = opt.broken
           /\ texts' = IF isPng
                       THEN RewriteUsages(texts, found, file, new_file_name)
                       ELSE texts
           /\ visits' = visits \cup
                 {[disk |-> f, keys |-> {assets[n].key : n \in 1..Len(assets)},
                   searched |-> file, used |-> TRUE, usages |-> found,
                   old |-> IF isPng THEN file ELSE <<>>,
                   new |-> IF isPng THEN new_file_name ELSE <<>>,
                   deleted |-> <<>>]}
    /\ faulted' = IF f \in broken
                  THEN faulted \cup {[disk |-> f, step |-> "transcode",
                                      remaining |-> todo \ {f}]}
                  ELSE faulted
    /\ errorLog' = IF f \in broken
                   THEN errorLog \cup {[disk |-> f, logger |-> "root"]}
                   ELSE errorLog
    /\ todo' = todo \ {f}
    /\ UNCHANGED <<imageVars, mainVars, assets, pc, run, first, input, listed>>

\* Lines 99-109: the image is referenced nowhere.
VisitUnused(f) ==
    /\ pc = "Walking"
    /\ f \in todo
    /\ ~IsHidden(f) /\ IsSupported(f)
    /\ LET file  == LogicalName(assets, f)
           found == search_image_in_files(file, texts)
       IN  /\ found = {}
           /\ static' = static \ {f}
           /\ broken' = broken \ {f}
           /\ assets' = delete_key_from_json(assets, file)
           /\ visits' = visits \cup
                 {[disk |-> f, keys |-> {assets[n].key : n \in 1..Len(assets)},
                   searched |-> file, used |-> FALSE, usages |-> {},
                   old |-> <<>>, new |-> <<>>, deleted |-> file]}
    /\ todo' = todo \ {f}
    /\ UNCHANGED <<imageVars, mainVars, texts, pc, run, first,
                   input, listed, faulted, errorLog>>

(***************************************************************************)
(* optimize-course-images.py: traverse_image_files, a step of one visit    *)
(* raising inside the try block of lines 73-109.                           *)
(***************************************************************************)

\* No handler around the loop body: the exception leaves traverse_image_files
\* with the rest of the listing unvisited and nothing logged.
except_Propagates(f, step) ==
    [pc |-> "Raised", todo |-> todo, errorLog |-> errorLog, faulted |-> faulted]

\* Lines 111-112: `except Exception` logs the error with the image's path on
\* the course logger, and the for loop goes on with the next file.
except_Exception(f, step) ==
    [pc       |-> "Walking",
     todo     |-> todo \ {f},
     errorLog |-> errorLog \cup {[disk |-> f, logger |-> "course"]},
     faulted  |-> faulted \cup {[disk |-> f, step |-> step,
                                 remaining |-> todo \ {f}]}]

\* Lines 79-82: the registry cannot be read and the lookup raises.
VisitResolveRaises(f) ==
    /\ pc = "Walking"
    /\ f \in todo
    /\ ~IsHidden(f) /\ IsSupported(f)
    /\ LET h == except_Exception(f, "resolve")
       IN  /\ pc' = h.pc
           /\ todo' = h.todo
           /\ errorLog' = h.errorLog
           /\ faulted' = h.faulted
    /\ UNCHANGED <<imageVars, mainVars, static, broken, texts, assets, visits, run, first,
                   input, listed>>

\* Lines 84-97: the image is referenced and has been through optimize_image;
\* the usage files in `done` are rewritten, then an open() of lines 93-97
\* raises on the next one.
VisitRewriteRaises(f) ==
    /\ pc = "Walking"
    /\ f \in todo
    /\ ~IsHidden(f) /\ IsSupported(f)
    /\ LET file  == LogicalName(assets, f)
           found == search_image_in_files(file, texts)
           opt   == optimize_image(static, broken, f)
           new_file_name == SplitExtRoot(file) \o JPG
           h     == except_Exception(f, "rewrite")
       IN  /\ found # {}
           /\ EndsWith(Lower(file), PNG)
           /\ \E done \in SUBSET found :
                 /\ done # found
                 /\ texts' = RewriteUsages(texts, done, file, new_file_name)
           /\ static' = opt.static
           /\ broken' = opt.broken
           /\ pc' = h.pc
           /\ todo' = h.todo
           /\ errorLog' = h.errorLog \cup
                 (IF f \in broken THEN {[disk |-> f, logger |-> "root"]} ELSE {})
           /\ faulted' = h.faulted
    /\ UNCHANGED <<imageVars, mainVars, assets, visits, run, first, input, listed>>

\* Lines 99-109: the image is referenced nowhere; os.remove raises (line 102,
\* nothing is removed), or the registry update does (lines 106-109, the file
\* is gone and its key stays).
VisitDeleteRaises(f) ==
    /\ pc = "Walking"
    /\ f \in todo
    /\ ~IsHidden(f) /\ IsSupported(f)
    /\ search_image_in_files(LogicalName(assets, f), texts) = {}
    /\ \E step \in {"remove", "delete_key"} :
          LET h == except_Exception(f, step)
          IN  /\ static' = IF step = "remove" THEN static ELSE static \ {f}
              /\ broken' = IF step = "remove" THEN broken ELSE broken \ {f}
              /\ pc' = h.pc
              /\ todo' = h.todo
              /\ errorLog' = h.errorLog
              /\ faulted' = h.faulted
    /\ UNCHANGED <<imageVars, mainVars, texts, assets, visits, run, first, input, listed>>

(***************************************************************************)
(* optimize-course-images.py: process_tar_file after the walk.             *)
(***************************************************************************)

\* Lines 138-141: the four passes over assets.json.
NormalizeAssets(registry) ==
    replace_json_keys(
        find_and_replace_in_json(
            find_and_replace_in_json(
                find_and_replace_in_json(registry, MimePng, MimeJpeg),
                ThumbPngJpg, JPG),
            PNG, JPG),
        PNG, JPG)

\* Line 144: the pass over the policy document.
NormalizePolicy(contents) ==
    [contents EXCEPT !["policy.json"] = Replace(@, PNG, JPG)]

NormalizeMetadata ==
    /\ pc = "Walking"
    /\ todo = {}
    /\ assets' = NormalizeAssets(assets)
    /\ texts' = NormalizePolicy(texts)
    /\ pc' = "MetadataNormalized"
    /\ UNCHANGED <<imageVars, mainVars, static, broken, todo, visits, run, first,
                   input, listed, faulted, errorLog>>

\* Lines 146-148: the working tree is archived as it stands.
Pack ==
    /\ pc = "MetadataNormalized"
    /\ pc' = "Packed"
    /\ first' = IF run = 1
                THEN [static |-> static, texts |-> texts, assets |-> assets]
                ELSE first
    /\ UNCHANGED <<imageVars, mainVars, static, broken, texts, assets, todo, visits, run,
                   input, listed, faulted, errorLog>>

\* The packed course tree is handed to process_tar_file once more.
Rerun ==
    /\ pc = "Packed"
    /\ run = 1
    /\ run' = 2
    /\ pc' = "Unpacked"
    /\ visits' = {}
    /\ listed' = {}
    /\ faulted' = {}
    /\ errorLog' = {}
    /\ UNCHANGED <<imageVars, mainVars, static, broken, texts, assets, todo, first, input>>

CourseNext ==
    \/ ListStatic
    \/ \E f \in todo : SkipFile(f)
    \/ \E f \in todo : VisitUsed(f)
    \/ \E f \in todo : VisitUnused(f)
    \/ NormalizeMetadata
    \/ Pack
    \/ Rerun



(***************************************************************************)
(* Properties of the packed course.                                        *)
(***************************************************************************)

RegistryKeys == {assets[n].key : n \in 1..Len(assets)}

\* The images the walk acts on: supported extension, not hidden.
VisibleImages == {f \in static : ~IsHidden(f) /\ IsSupported(f)}

\* C1 (reference integrity): when the course is packed, for every used image
\* renamed from <base>.png to <base>.jpg, every file the search matched holds
\* the new name and no scanned file holds the old name any more.
C1_ReferenceIntegrity ==
    pc = "Packed" =>
        \A v \in visits :
            (v.used /\ v.old # <<>>) =>
                /\ \A f \in v.usages : Contains(Lower(texts[f]), Lower(v.new))
                /\ \A f \in Files : ~Contains(texts[f], v.old)

\* C2 (unused-image removal): when the course is packed, every image the walk
\* found unreferenced is absent from static/ and its content key is absent
\* from the registry.
C2_UnusedRemoved ==
    pc = "Packed" =>
        \A v \in visits :
            ~v.used => (v.disk \notin static /\ v.searched \notin RegistryKeys)

\* C3 (format invariant): in a packed course every image under static/ is a
\* .jpg or .jpeg file; no .png is left, whatever happened to each image.
C3_OnlyJpegPacked ==
    pc = "Packed" => \A f \in VisibleImages : IsJpegName(f)

\* C4 (idempotence): a second run over the packed tree of the first run packs
\* the same static/ file names, the same content texts and policy values and
\* the same registry.
C4_SecondRunChangesNothing ==
    (pc = "Packed" /\ run = 2) =>
        [static |-> static, texts |-> texts, assets |-> assets] = first

\* C5 (registry consistency): when the course is packed, every image left
\* under static/ has a registry entry under its content key with MIME type
\* image/jpeg, and no key or value of the registry names a .png.
C5_RegistryConsistent ==
    pc = "Packed" =>
        /\ \A f \in VisibleImages :
              \E n \in 1..Len(assets) :
                  /\ Replace(assets[n].key, <<"@">>, <<"_">>) = f
                  /\ assets[n].contentType = MimeJpeg
        /\ \A n \in 1..Len(assets) :
              /\ ~Contains(assets[n].key, PNG)
              /\ ~Contains(assets[n].thumb, PNG)
              /\ ~Contains(assets[n].contentType, <<"p", "n", "g">>)

Handled ==
    {g \in listed : IsHidden(g) \/ ~IsSupported(g)}
        \cup {v.disk : v \in visits} \cup {e.disk : e \in faulted}

\* C11 (per-image error isolation): a failure of resolving, transcoding,
\* rewriting or deleting for one image never leaves traverse_image_files as
\* an exception; it is logged for that image, every file the walk had still
\* to visit at that moment is dealt with by the time of the metadata passes
\* and of packing, which are never skipped: the course is never left in the
\* state "Raised", from which nothing follows.
C11_ImageFaultIsolated ==
    /\ pc \in {"Unpacked", "Walking", "MetadataNormalized", "Packed"}
    /\ \A e \in faulted : \E l \in errorLog : l.disk = e.disk
    /\ pc \in {"MetadataNormalized", "Packed"} =>
          \A e \in faulted : e.remaining \subseteq Handled

\* C11 witness: a packed course in whose walk a step raised for one image
\* while another image was still to visit, and that image was then visited
\* to the end.
C11_Witness ==
    /\ pc = "Packed"
    /\ \E e \in faulted :
          /\ e.step # "transcode"
          /\ \E v \in visits : v.disk \in e.remaining


(***************************************************************************)
(* utils/img_handlers.py: the pixel size optimize_image gives an image.    *)
(*   origW, origH : the size of the image as opened                        *)
(*   width, height: the size of the image object after line 60             *)
(*   ipc          : "opened", then "saved" (the JPEG was written) or       *)
(*                  "failed" (the except clause of line 86 ran)            *)
(***************************************************************************)

\* Line 58: the width above which an image is resized, and the new width.
TargetWidth == 1400

\* Largest height of an input image.
MaxHeight == 200

\* Widths of the input images: around the threshold and well above it.
Widths == {1, 700, 1399, 1400, 1401, 1624, 2000, 2800}

\* The sizes w x h, for w in Widths and h up to 400, at which the IEEE double
\* product h * (1400 / w) of line 59 lies below the exact quotient h*1400/w,
\* which is then an integer (e.g. 90 * (1400 / 2000) = 62.99999999999999).
FloatProductBelow ==
    { <<1624, 145>>, <<1624, 290>>, <<2000, 90>>, <<2000, 170>>, <<2000, 180>>,
      <<2000, 330>>, <<2000, 340>>, <<2000, 350>>, <<2000, 360>> }

\* A height rounded to the nearest integer instead of truncated.
new_height_Rounded(w, h) == (2 * h * TargetWidth + w) \div (2 * w)

\* Line 59: int(img.height * (1400 / img.width)), truncation of the double.
new_height(w, h) ==
    IF <<w, h>> \in FloatProductBelow
    THEN (h * TargetWidth) \div w - 1
    ELSE (h * TargetWidth) \div w

ImageInit ==
    /\ origW \in Widths
    /\ origH \in 1..MaxHeight
    /\ width = origW
    /\ height = origH
    /\ ipc = "opened"

\* Lines 58-68, width <= 1400: no resize, the image is saved as it is.
SaveUnscaled ==
    /\ ipc = "opened"
    /\ ~(width > TargetWidth)
    /\ ipc' = "saved"
    /\ UNCHANGED <<courseVars, mainVars, origW, origH, width, height>>

\* Lines 58-68, width > 1400: resized to 1400 x new_height, then saved.
SaveDownscaled ==
    /\ ipc = "opened"
    /\ width > TargetWidth
    /\ new_height(width, height) >= 1
    /\ width' = TargetWidth
    /\ height' = new_height(width, height)
    /\ ipc' = "saved"
    /\ UNCHANGED <<courseVars, mainVars, origW, origH>>

\* Lines 60 and 86: the image library refuses a height below 1; the error is
\* caught and nothing is saved.
ResizeRaises ==
    /\ ipc = "opened"
    /\ width > TargetWidth
    /\ new_height(width, height) < 1
    /\ ipc' = "failed"
    /\ UNCHANGED <<courseVars, mainVars, origW, origH, width, height>>

ImageNext == SaveUnscaled \/ SaveDownscaled \/ ResizeRaises

\* C10 (downscale boundary), as claimed: a saved image keeps its size when
\* its width is at most 1400, and otherwise has width 1400 and the height
\* h * 1400 / w rounded to the nearest integer.
C10_HeightRoundedToNearest ==
    ipc = "saved" =>
        /\ origW <= TargetWidth => (width = origW /\ height = origH)
        /\ origW > TargetWidth =>
              /\ width = TargetWidth
              /\ 2 * height * origW <= 2 * origH * TargetWidth + origW
              /\ 2 * height * origW >= 2 * origH * TargetWidth - origW

\* C10, amended: a saved image keeps its size when its width is at most 1400,
\* and otherwise has width 1400 and the height h * 1400 / w truncated: the
\* largest integer not above the quotient, or one less than the quotient when
\* the quotient is an integer. A failed resize leaves the size as it was.
C10_HeightTruncated ==
    /\ ipc = "saved" =>
        /\ origW <= TargetWidth => (width = origW /\ height = origH)
        /\ origW > TargetWidth =>
              /\ width = TargetWidth
              /\ height >= 1
              /\ height * origW <= origH * TargetWidth
              /\ \/ origH * TargetWidth < (height + 1) * origW
                 \/ origH * TargetWidth = (height + 1) * origW
    /\ ipc = "failed" => (width = origW /\ height = origH /\ origW > TargetWidth)

\* C10 witness: an image one pixel wider than the threshold was saved at
\* width 1400 with a smaller height.
C10_Witness ==
    ipc = "saved" /\ origW = TargetWidth + 1 /\ width = TargetWidth /\ height < origH


(***************************************************************************)
(* optimize-course-images.py: main, the worker pool and the jobs, each job *)
(* seen from outside (its working paths and whether it raises).            *)
(*   sourceDir : names of the files in the source directory                *)
(*   kind      : what each archive is: "ok"; "unreadable" (it cannot be    *)
(*               copied); "corrupt" (it cannot be extracted); "nopolicy"   *)
(*               (its course has no policies/policy.json)                  *)
(*   tar_files : the list glob returned                                    *)
(*   chunkAt   : index in tar_files of the first archive of the batch      *)
(*   jobPc     : where each archive's job stands                           *)
(*   raised    : the exception each job ended with                         *)
(*   poolError : the first exception of the batch, which starmap re-raises *)
(*   touched   : the paths each job created, wrote or deleted              *)
(*   appLog    : what main wrote to the aggregate log                      *)
(***************************************************************************)

\* Line 30.
NUM_COURSE_OPTIMIZATION_CHUNKS == 2
\* Line 31.
NUM_WORKER_PROCESSES == 2

\* Largest number of archives in the source directory.
MaxArchives == 3

TARGZ == <<".", "t", "a", "r", ".", "g", "z">>
TAR   == <<".", "t", "a", "r">>
LOG   == <<".", "l", "o", "g">>
Application == <<"a", "p", "p", "l", "i", "c", "a", "t", "i", "o", "n">>
Optimized == <<"-", "o", "p", "t", "i", "m", "i", "z", "e", "d">>

\* Files the source directory may hold.
SourcePool ==
    { <<"c">> \o TARGZ, <<"c">> \o TAR \o TARGZ, <<"d">> \o TARGZ,
      Application \o TARGZ, <<"n", ".", "t", "x", "t">> }

Kinds == {"ok", "unreadable", "corrupt", "nopolicy"}

\* Line 168: glob.glob(SOURCE_DIRECTORY/*.tar.gz): `*` matches no leading dot.
Glob(dir) == {f \in dir : EndsWith(f, TARGZ) /\ ~StartsWith(f, <<".">>)}

\* Line 57: the aggregate log.
AppLogPath == [dir |-> "logs", name |-> Application \o LOG]

\* Line 118: the archive's name with two extensions taken off.
tar_file_name(tar_file) == SplitExtRoot(SplitExtRoot(tar_file))
\* Line 119.
tar_destination(tar_file) == [dir |-> "tmp", name |-> tar_file_name(tar_file)]
\* Line 122.
log_file(tar_file) == [dir |-> "logs", name |-> tar_file_name(tar_file) \o LOG]
\* Line 129.
tar_file_copy(tar_file) == [dir |-> "tmp", name |-> tar_file_name(tar_file) \o TAR]
\* Lines 146-148 and tar_handlers.py:21.
optimized_file(tar_file) ==
    [dir |-> "optimized", name |-> tar_file_name(tar_file) \o Optimized \o TARGZ]

\* Line 175.
chunk_size ==
    IF NUM_COURSE_OPTIMIZATION_CHUNKS <= NUM_WORKER_PROCESSES
    THEN NUM_COURSE_OPTIMIZATION_CHUNKS ELSE NUM_WORKER_PROCESSES

\* Lines 151-154: the archives of the batch that starts at index i.
Chunk(lst, i) ==
    {lst[n] : n \in {m \in 1..Len(lst) : i <= m /\ m < i + chunk_size}}

\* Every ordering of a finite set.
RECURSIVE Orderings(_)
Orderings(S) ==
    IF S = {} THEN {<<>>}
    ELSE UNION {{<<x>> \o o : o \in Orderings(S \ {x})} : x \in S}

MainInit ==
    /\ sourceDir \in SUBSET SourcePool
    /\ Cardinality(Glob(sourceDir)) <= MaxArchives
    /\ kind \in [Glob(sourceDir) -> Kinds]
    /\ tar_files = <<>>
    /\ chunkAt = 1
    /\ mainPc = "start"
    /\ jobPc = [a \in Glob(sourceDir) |-> "pending"]
    /\ raised = [a \in Glob(sourceDir) |-> "none"]
    /\ poolError = "none"
    /\ touched = [a \in Glob(sourceDir) |-> {}]
    /\ appLog = {}

\* Lines 163-165: the three directories are created.
MakeDirs ==
    /\ mainPc = "start"
    /\ mainPc' = "dirs"
    /\ UNCHANGED <<courseVars, imageVars, sourceDir, kind, tar_files, chunkAt, jobPc, raised,
                   poolError, touched, appLog>>

\* Lines 163-165 and 182-186: a directory cannot be created; the OSError is
\* caught and main runs on to its last two log lines.
MakeDirsFails ==
    /\ mainPc = "start"
    /\ mainPc' = "returned"
    /\ appLog' = appLog \cup {"Failed to execute main function: makedirs",
                              "All courses have been optimized"}
    /\ UNCHANGED <<courseVars, imageVars, sourceDir, kind, tar_files, chunkAt, jobPc, raised,
                   poolError, touched>>

\* Lines 168-171: no archive matched; main logs that and returns.
NoArchives ==
    /\ mainPc = "dirs"
    /\ Glob(sourceDir) = {}
    /\ appLog' = appLog \cup {"No .tar.gz files found in source directory."}
    /\ mainPc' = "returned"
    /\ UNCHANGED <<courseVars, imageVars, sourceDir, kind, tar_files, chunkAt, jobPc, raised,
                   poolError, touched>>

\* Line 168: glob returns the matches in directory order.
ListArchives ==
    /\ mainPc = "dirs"
    /\ Glob(sourceDir) # {}
    /\ tar_files' \in Orderings(Glob(sourceDir))
    /\ chunkAt' = 1
    /\ mainPc' = "loop"
    /\ UNCHANGED <<courseVars, imageVars, sourceDir, kind, jobPc, raised, poolError, touched, appLog>>

\* Lines 178-180: a pool is created and the batch is handed to starmap.
StartBatch ==
    /\ mainPc = "loop"
    /\ chunkAt <= Len(tar_files)
    /\ jobPc' = [a \in DOMAIN jobPc |->
                    IF a \in Chunk(tar_files, chunkAt) THEN "queued" ELSE jobPc[a]]
    /\ poolError' = "none"
    /\ mainPc' = "pool"
    /\ UNCHANGED <<courseVars, imageVars, sourceDir, kind, tar_files, chunkAt, raised, touched, appLog>>

\* Lines 116-130: the working directory and the job's log are made and the
\* archive is copied beside the working directory.
JobCopy(a) ==
    /\ mainPc = "pool"
    /\ jobPc[a] = "queued"
    /\ kind[a] # "unreadable"
    /\ touched' = [touched EXCEPT ![a] =
                      @ \cup {tar_destination(a), log_file(a), tar_file_copy(a)}]
    /\ jobPc' = [jobPc EXCEPT ![a] = "copied"]
    /\ UNCHANGED <<courseVars, imageVars, sourceDir, kind, tar_files, chunkAt, mainPc, raised,
                   poolError, appLog>>

\* Lines 116-130: shutil.copy raises an OSError; the job ends with it.
JobCopyRaises(a) ==
    /\ mainPc = "pool"
    /\ jobPc[a] = "queued"
    /\ kind[a] = "unreadable"
    /\ touched' = [touched EXCEPT ![a] = @ \cup {tar_destination(a), log_file(a)}]
    /\ jobPc' = [jobPc EXCEPT ![a] = "Aborted"]
    /\ raised' = [raised EXCEPT ![a] = "OSError"]
    /\ poolError' = IF poolError = "none" THEN "OSError" ELSE poolError
    /\ UNCHANGED <<courseVars, imageVars, sourceDir, kind, tar_files, chunkAt, mainPc, appLog>>

\* Lines 131-132: extract_tar_gz (which logs its own errors and returns) and
\* the removal of the copy.
JobExtract(a) ==
    /\ mainPc = "pool"
    /\ jobPc[a] = "copied"
    /\ jobPc' = [jobPc EXCEPT ![a] = "extracted"]
    /\ UNCHANGED <<courseVars, imageVars, sourceDir, kind, tar_files, chunkAt, mainPc, raised,
                   poolError, touched, appLog>>

\* Lines 134-144: the walk and the metadata passes, the policy document found.
JobRewrite(a) ==
    /\ mainPc = "pool"
    /\ jobPc[a] = "extracted"
    /\ kind[a] = "ok"
    /\ jobPc' = [jobPc EXCEPT ![a] = "normalized"]
    /\ UNCHANGED <<courseVars, imageVars, sourceDir, kind, tar_files, chunkAt, mainPc, raised,
                   poolError, touched, appLog>>

\* Lines 143-144: without an extracted course/policies/policy.json,
\* find_json_file returns None and open(None) raises a TypeError.
JobRewriteRaises(a) ==
    /\ mainPc = "pool"
    /\ jobPc[a] = "extracted"
    /\ kind[a] \in {"corrupt", "nopolicy"}
    /\ jobPc' = [jobPc EXCEPT ![a] = "Aborted"]
    /\ raised' = [raised EXCEPT ![a] = "TypeError"]
    /\ poolError' = IF poolError = "none" THEN "TypeError" ELSE poolError
    /\ UNCHANGED <<courseVars, imageVars, sourceDir, kind, tar_files, chunkAt, mainPc, touched, appLog>>

\* Lines 146-149: the archive is written and the working directory deleted.
JobPack(a) ==
    /\ mainPc = "pool"
    /\ jobPc[a] = "normalized"
    /\ touched' = [touched EXCEPT ![a] = @ \cup {optimized_file(a)}]
    /\ jobPc' = [jobPc EXCEPT ![a] = "Packed"]
    /\ UNCHANGED <<courseVars, imageVars, sourceDir, kind, tar_files, chunkAt, mainPc, raised,
                   poolError, appLog>>

BatchOver ==
    \A a \in Chunk(tar_files, chunkAt) : jobPc[a] \in {"Packed", "Aborted"}

\* Line 180: starmap returns once every job of the batch has ended well.
BatchReturns ==
    /\ mainPc = "pool"
    /\ BatchOver
    /\ poolError = "none"
    /\ chunkAt' = chunkAt + chunk_size
    /\ mainPc' = "loop"
    /\ UNCHANGED <<courseVars, imageVars, sourceDir, kind, tar_files, jobPc, raised, poolError,
                   touched, appLog>>

\* Lines 180-186: starmap re-raises a job's OSError once the batch has ended;
\* main catches it, leaves the loop and logs its last two lines.
BatchRaisesOSError ==
    /\ mainPc = "pool"
    /\ BatchOver
    /\ poolError = "OSError"
    /\ appLog' = appLog \cup {"Failed to execute main function: job",
                              "All courses have been optimized"}
    /\ mainPc' = "returned"
    /\ UNCHANGED <<courseVars, imageVars, sourceDir, kind, tar_files, chunkAt, jobPc, raised,
                   poolError, touched>>

\* Lines 180-182: starmap re-raises a job's TypeError; `except OSError` does
\* not catch it and main ends with the exception.
BatchRaisesTypeError ==
    /\ mainPc = "pool"
    /\ BatchOver
    /\ poolError = "TypeError"
    /\ mainPc' = "raised"
    /\ UNCHANGED <<courseVars, imageVars, sourceDir, kind, tar_files, chunkAt, jobPc, raised,
                   poolError, touched, appLog>>

\* Lines 178 and 185-186: the loop is over; main logs completion.
AllBatchesDone ==
    /\ mainPc = "loop"
    /\ chunkAt > Len(tar_files)
    /\ appLog' = appLog \cup {"All courses have been optimized"}
    /\ mainPc' = "returned"
    /\ UNCHANGED <<courseVars, imageVars, sourceDir, kind, tar_files, chunkAt, jobPc, raised,
                   poolError, touched>>

MainNext ==
    \/ MakeDirs
    \/ MakeDirsFails
    \/ NoArchives
    \/ ListArchives
    \/ StartBatch
    \/ \E a \in DOMAIN jobPc : JobCopy(a)
    \/ \E a \in DOMAIN jobPc : JobCopyRaises(a)
    \/ \E a \in DOMAIN jobPc : JobExtract(a)
    \/ \E a \in DOMAIN jobPc : JobRewrite(a)
    \/ \E a \in DOMAIN jobPc : JobRewriteRaises(a)
    \/ \E a \in DOMAIN jobPc : JobPack(a)
    \/ BatchReturns
    \/ BatchRaisesOSError
    \/ BatchRaisesTypeError
    \/ AllBatchesDone


(***************************************************************************)
(* Properties of a run of main.                                            *)
(***************************************************************************)

MainEnded == mainPc \in {"returned", "raised"}

\* C6 (failed-job isolation): when main has ended and some archive's job
\* failed, the failure was caught (main returned rather than raised) and
\* every archive of the run reached Packed or Aborted.
C6_FailedJobIsolated ==
    (MainEnded /\ \E a \in DOMAIN jobPc : jobPc[a] = "Aborted") =>
        /\ mainPc = "returned"
        /\ \A b \in DOMAIN jobPc : jobPc[b] \in {"Packed", "Aborted"}

\* C7 (completion report): a run of main that created its directories and
\* found at least one archive has, once it has ended, logged the overall
\* completion message, however many jobs failed.
C7_CompletionLogged ==
    (MainEnded /\ tar_files # <<>>) =>
        "All courses have been optimized" \in appLog

\* C8 (working-area exclusivity): two distinct archives of one batch never
\* touch a common path, and no job touches the aggregate log.
C8_WorkingAreasDisjoint ==
    mainPc = "pool" =>
        /\ \A a, b \in Chunk(tar_files, chunkAt) :
              a # b => touched[a] \cap touched[b] = {}
        /\ \A a \in Chunk(tar_files, chunkAt) : AppLogPath \notin touched[a]

(***************************************************************************)
(* optimize-course-images.py: the walk of traverse_image_files as a        *)
(* function of the course and of the order in which os.walk reports the    *)
(* files, for comparing the orders a file system may choose.               *)
(***************************************************************************)

\* Lines 63-109: one iteration of the loop over `files`, none of its steps
\* raising. `used` collects the images classified as referenced.
visit_image(course, f) ==
    IF IsHidden(f) \/ ~IsSupported(f)
    THEN course
    ELSE LET file  == LogicalName(course.assets, f)
             found == search_image_in_files(file, course.texts)
             opt   == optimize_image(course.static, course.broken, f)
         IN  IF found # {}
             THEN [course EXCEPT
                     !.static = opt.static,
                     !.broken = opt.broken,
                     !.texts  = IF EndsWith(Lower(file), PNG)
                                THEN RewriteUsages(course.texts, found, file,
                                                   SplitExtRoot(file) \o JPG)
                                ELSE course.texts,
                     !.used   = @ \cup {f}]
             ELSE [course EXCEPT
                     !.static = @ \ {f},
                     !.broken = @ \ {f},
                     !.assets = delete_key_from_json(@, file)]

\* Lines 62-63: the loop, over the listing in the order given.
RECURSIVE traverse_image_files(_, _)
traverse_image_files(course, files) ==
    IF files = <<>> THEN course
    ELSE traverse_image_files(visit_image(course, Head(files)), Tail(files))

\* Lines 134-148: the walk, then the metadata passes; what is packed.
process_course(course, files) ==
    LET walked == traverse_image_files(
                      [static |-> course.static, broken |-> course.broken,
                       texts |-> course.texts, assets |-> course.assets,
                       used |-> {}],
                      files)
    IN  [static |-> walked.static,
         texts  |-> NormalizePolicy(walked.texts),
         assets |-> NormalizeAssets(walked.assets),
         used   |-> walked.used]

\* C12 (order independence): when the first run over a course is packed, the
\* files under static/, the text of every content file, the policy document
\* and the registry are what the walk produces from the same input course in
\* every order of enumerating static/, and the images classified used are the
\* same in every order.
C12_OrderIndependent ==
    (pc = "Packed" /\ run = 1) =>
        \A files \in Orderings(input.static) :
            process_course(input, files) =
                [static |-> static, texts |-> texts, assets |-> assets,
                 used |-> {v.disk : v \in {w \in visits : w.used}}]


(***************************************************************************)
(* The specifications: each runs one part and leaves the others at rest.   *)
(***************************************************************************)
vars == <<courseVars, imageVars, mainVars>>

CourseIdle ==
    /\ static = {} /\ broken = {} /\ assets = <<>> /\ todo = {}
    /\ texts = [f \in Files |-> <<>>]
    /\ pc = "idle" /\ visits = {} /\ run = 1 /\ first = NoOutput
    /\ input = [static |-> {}, broken |-> {},
                texts |-> [f \in Files |-> <<>>], assets |-> <<>>]
    /\ listed = {} /\ faulted = {} /\ errorLog = {}

ImageIdle ==
    origW = 0 /\ origH = 0 /\ width = 0 /\ height = 0 /\ ipc = "idle"

MainIdle ==
    /\ sourceDir = {} /\ kind = <<>> /\ tar_files = <<>> /\ chunkAt = 1
    /\ mainPc = "idle" /\ jobPc = <<>> /\ raised = <<>> /\ poolError = "none"
    /\ touched = <<>> /\ appLog = {}

\* One course through process_tar_file, twice.
Init == CourseInit /\ ImageIdle /\ MainIdle
Next == CourseNext
Spec == Init /\ [][Next]_vars

\* One course through process_tar_file, with steps of a visit failing. The
\* courses are those of CourseInit over five of the images, at most one of
\* them unreadable to the image library, and three of the content texts.
FaultImages ==
    {Name(<<"a">>, PNG), Name(<<"a">>, JPG), Name(<<"x", "a">>, PNG),
     Name(<<"b", "_", "2">>, PNG), Name(<<".", "h">>, PNG)}

FaultTexts == {<<>>, Name(<<"a">>, PNG), Name(<<"b", "@", "2">>, PNG)}

InitFaults ==
    /\ CourseInit
    /\ static \subseteq FaultImages
    /\ Cardinality(broken) <= 1
    /\ \A f \in Files : texts[f] \in FaultTexts
    /\ ImageIdle
    /\ MainIdle
NextFaults ==
    \/ ListStatic
    \/ \E f \in todo : SkipFile(f)
    \/ \E f \in todo : VisitUsed(f)
    \/ \E f \in todo : VisitUnused(f)
    \/ \E f \in todo : VisitResolveRaises(f)
    \/ \E f \in todo : VisitRewriteRaises(f)
    \/ \E f \in todo : VisitDeleteRaises(f)
    \/ NormalizeMetadata
    \/ Pack
SpecFaults == InitFaults /\ [][NextFaults]_vars

\* One image through optimize_image.
InitImage == ImageInit /\ CourseIdle /\ MainIdle
NextImage == ImageNext
SpecImage == InitImage /\ [][NextImage]_vars

\* One run of main over a source directory.
InitMain == MainInit /\ CourseIdle /\ ImageIdle
NextMain == MainNext
SpecMain == InitMain /\ [][NextMain]_vars

====
